---------------------------- MODULE Spec2Model ----------------------------
(***************************************************************************)
(* Slot game outcome engine (stardak/neon-vault): the spin evaluator and   *)
(* the Monte Carlo outcome sampler of src/simulator.py over the Game       *)
(* Definition of src/slot_config.py, and the reel-strip tuner of           *)
(* src/rtp_tuner.py (quick_sim, tune_strips).                              *)
(*                                                                         *)
(* Conventions.                                                            *)
(*  - Python lists are TLA+ sequences; a Python index k is the TLA+ index  *)
(*    k + 1.  Stop positions and payline rows keep their 0-based values.   *)
(*  - Python None is the string "None" where a symbol is expected; a       *)
(*    returned None of evaluate_payline is the record NoWin (win = FALSE). *)
(*  - A total-bet payout is a rational with denominator len(PAYLINES); it  *)
(*    is kept as its numerator (see evaluate_spin).                        *)
(***************************************************************************)
EXTENDS Integers, Sequences, FiniteSets, TLC

VARIABLES
    gd,         \* the Game Definition in force (the module globals of slot_config)
    line,       \* SpecLine: the symbols on one payline, reel order
    lineRes,    \* SpecLine: what evaluate_payline computed for line
    stops,      \* the stop positions last handed to evaluate_spin
    spinRes,    \* what evaluate_spin returned for stops
    quickRes,   \* what the body of quick_sim's loop added for the grid of stops
    rng,        \* the state of the module-level generator of `random`
    pc,         \* where the process is: "idle", or inside a sampling function
    num_samples,        \* argument of the running call (num_sessions in free-spins mode)
    i,                  \* loop index: trials (sessions) accumulated so far
    outcome_buckets,    \* the table being built (fs_outcomes in free-spins mode)
    total_payout,       \* run_simulation: the running sum of payouts
    num_fs,             \* free-spins session: number of sub-spins drawn
    spin,               \* free-spins session: sub-spins done
    session_payout,     \* free-spins session: boosted sum so far
    session_grids,      \* free-spins session: the grids so far
    returned,           \* what the calls made so far returned, in call order
    other_draws,        \* draws other code of the process took from `random`
    csv_rows,           \* the rows export_base_game_csv wrote last
    base_outcomes,      \* main: the table handed to the exports (line 400)
    game_events,        \* the events export_game_events wrote last
    heap,               \* the list objects of the tuner's process: id -> symbols
    target_rtp,         \* tune_strips: argument
    iterations,         \* tune_strips: argument
    iteration,          \* tune_strips: perturbation rounds done
    working_strips,     \* tune_strips: its local strips, as list ids
    best_strips,        \* tune_strips: the best-so-far strips, as list ids
    current_rtp,        \* tune_strips: ratio sampled for the working strips
    best_rtp,           \* tune_strips: ratio sampled for best_strips
    starting_rtp,       \* tune_strips: the ratio of line 71, as printed by line 72
    quick_sims,         \* calls of quick_sim made by the running call
    tune_calls,         \* calls of tune_strips made so far
    tuned               \* what tune_strips returned last

lineVars == <<line, lineRes>>

spinVars == <<stops, spinRes, quickRes>>

simVars == <<rng, pc, num_samples, i, outcome_buckets, total_payout, num_fs, spin,
             session_payout, session_grids, returned, other_draws, csv_rows>>

exportVars == <<base_outcomes, game_events>>

runVars == <<num_samples, i, outcome_buckets, total_payout, num_fs, spin, session_payout,
             session_grids, returned, other_draws, csv_rows>>

tuneVars == <<heap, target_rtp, iterations, iteration, working_strips, best_strips, current_rtp,
              best_rtp, starting_rtp, quick_sims, tune_calls, tuned>>

vars == <<gd, lineVars, spinVars, simVars, exportVars, tuneVars>>

(***************************************************************************)
(* src/slot_config.py                                                      *)
(***************************************************************************)
NUM_REELS == 5

NUM_ROWS == 3

REEL_STRIPS ==
    << <<"L4", "L3", "L2", "H3", "L4", "L1", "L3", "H2", "L4", "L2",
         "L1", "L3", "H1", "L4", "L2", "L3", "L1", "W",  "L4", "L2",
         "L3", "H3", "L1", "L4", "L2", "S",  "L3", "L4", "L1", "L2">>,
       <<"L2", "L4", "L3", "L1", "H3", "L4", "L2", "L3", "H2", "L1",
         "L4", "L3", "L2", "H1", "L1", "L4", "L3", "W",  "L2", "L4",
         "L1", "L3", "H3", "L2", "L4", "L1", "S",  "L3", "L4", "L2">>,
       <<"L3", "L1", "L4", "L2", "H3", "L3", "L1", "L4", "H2", "L2",
         "L3", "L1", "H1", "L4", "L2", "L3", "W",  "L1", "L4", "L2",
         "L3", "H3", "L4", "L1", "L2", "L3", "S",  "L4", "L1", "L2">>,
       <<"L1", "L2", "L3", "L4", "H3", "L1", "L2", "L4", "H2", "L3",
         "L1", "L4", "H1", "L2", "L3", "L1", "L4", "W",  "L2", "L3",
         "L1", "L4", "H3", "L2", "L3", "L4", "S",  "L1", "L2", "L3">>,
       <<"L4", "L1", "L2", "L3", "H3", "L4", "L1", "L3", "H2", "L2",
         "L4", "L1", "H1", "L3", "L2", "L4", "W",  "L1", "L3", "L2",
         "L4", "H3", "L1", "L3", "L2", "S",  "L4", "L1", "L3", "L2">> >>

PAYLINES ==
    << <<1, 1, 1, 1, 1>>, <<0, 0, 0, 0, 0>>, <<2, 2, 2, 2, 2>>,
       <<0, 1, 2, 1, 0>>, <<2, 1, 0, 1, 2>>, <<0, 0, 1, 2, 2>>,
       <<2, 2, 1, 0, 0>>, <<1, 0, 0, 0, 1>>, <<1, 2, 2, 2, 1>>,
       <<0, 1, 1, 1, 0>>, <<2, 1, 1, 1, 2>>, <<1, 0, 1, 0, 1>>,
       <<1, 2, 1, 2, 1>>, <<0, 1, 0, 1, 0>>, <<2, 1, 2, 1, 2>>,
       <<1, 1, 0, 1, 1>>, <<1, 1, 2, 1, 1>>, <<0, 0, 1, 0, 0>>,
       <<2, 2, 1, 2, 2>>, <<0, 2, 0, 2, 0>> >>

PAYTABLE ==
    [ W  |-> (3 :> 50 @@ 4 :> 200 @@ 5 :> 1000),
      H1 |-> (3 :> 30 @@ 4 :> 100 @@ 5 :> 500),
      H2 |-> (3 :> 20 @@ 4 :> 75  @@ 5 :> 250),
      H3 |-> (3 :> 15 @@ 4 :> 50  @@ 5 :> 150),
      L1 |-> (3 :> 10 @@ 4 :> 30  @@ 5 :> 100),
      L2 |-> (3 :> 8  @@ 4 :> 25  @@ 5 :> 75),
      L3 |-> (3 :> 5  @@ 4 :> 20  @@ 5 :> 50),
      L4 |-> (3 :> 3  @@ 4 :> 15  @@ 5 :> 30) ]

SCATTER_PAYS == (3 :> 5 @@ 4 :> 20 @@ 5 :> 100)

FREE_SPINS_TRIGGER == (3 :> 10 @@ 4 :> 15 @@ 5 :> 25)

FREE_SPINS_MULTIPLIER == 3

(***************************************************************************)
(* Game Definitions.  simulator.py reads REEL_STRIPS, PAYLINES, PAYTABLE,  *)
(* SCATTER_PAYS and FREE_SPINS_TRIGGER as module globals; a Game           *)
(* Definition is one binding of those globals.  Config is the binding      *)
(* slot_config.py ships.  The others are bindings of the same globals to   *)
(* other data: the two end-to-end examples (all-"A" strips of length 3, one*)
(* payline) and a sparse definition whose reel strips differ in length.    *)
(***************************************************************************)
Config ==
    [ strips             |-> REEL_STRIPS,
      paylines           |-> PAYLINES,
      paytable           |-> PAYTABLE,
      scatter_pays       |-> SCATTER_PAYS,
      free_spins_trigger |-> FREE_SPINS_TRIGGER ]

ExampleStrips == [r \in 1..NUM_REELS |-> <<"A", "A", "A">>]

ExampleFull ==
    [ strips             |-> ExampleStrips,
      paylines           |-> << <<0, 0, 0, 0, 0>> >>,
      paytable           |-> [A |-> (3 :> 10 @@ 4 :> 10 @@ 5 :> 10)],
      scatter_pays       |-> SCATTER_PAYS,
      free_spins_trigger |-> FREE_SPINS_TRIGGER ]

ExampleSparse ==
    [ strips             |-> ExampleStrips,
      paylines           |-> << <<0, 0, 0, 0, 0>> >>,
      paytable           |-> [A |-> (3 :> 10)],
      scatter_pays       |-> SCATTER_PAYS,
      free_spins_trigger |-> FREE_SPINS_TRIGGER ]

Mixed ==
    [ strips             |-> << <<"S", "S", "S", "A", "W", "A">>,
                                <<"A", "S", "S", "S", "W">>,
                                <<"W", "A", "S", "S", "S", "B">>,
                                <<"S", "S", "S", "A">>,
                                <<"A", "W", "S", "S", "S", "B", "A">> >>,
      paylines           |-> << <<1, 1, 1, 1, 1>>, <<0, 0, 0, 0, 0>>,
                                <<0, 1, 2, 1, 0>> >>,
      paytable           |-> [ W |-> (3 :> 50 @@ 4 :> 200 @@ 5 :> 1000),
                               A |-> (3 :> 10 @@ 4 :> 30) ],
      scatter_pays       |-> SCATTER_PAYS,
      free_spins_trigger |-> FREE_SPINS_TRIGGER ]

\* The symbols a Game Definition puts on its reels.
\* slot_config.py, lines 10-20: the keys of SYMBOLS.
SYMBOLS == {"W", "S", "H1", "H2", "H3", "L1", "L2", "L3", "L4"}

\* The shipped definition with its first payline edited to the row -1 ...
ConfigRowMinusOne ==
    [Config EXCEPT !.paylines = <<<<-1, -1, -1, -1, -1>>>> \o Tail(PAYLINES)]

\* ... and with a paytable entry for a symbol that SYMBOLS does not hold.
ConfigUnknownSymbol ==
    [Config EXCEPT !.paytable = [X |-> (3 :> 5 @@ 4 :> 15 @@ 5 :> 50)] @@ PAYTABLE]

SymbolsOf(g) == UNION {{g.strips[r][k] : k \in 1..Len(g.strips[r])} : r \in 1..NUM_REELS}

(***************************************************************************)
(* src/simulator.py: evaluate_payline                                      *)
(***************************************************************************)
NoWin == [win |-> FALSE, symbol |-> "None", count |-> 0, payout |-> 0]

\* A first loop that takes the leftmost symbol as the paying symbol, wild or not.
PayScanLeftmost(symbols_on_line, k) ==
    IF symbols_on_line[k] = "S" THEN [scatter_exit |-> TRUE, pay_symbol |-> "None"]
    ELSE [scatter_exit |-> FALSE, pay_symbol |-> symbols_on_line[k]]

\* Lines 63-70: the first loop.  It returns from the function at a scatter
\* and leaves the loop at the first symbol that is not the wild.
RECURSIVE PayScan(_, _)
PayScan(symbols_on_line, k) ==
    IF k > Len(symbols_on_line) THEN [scatter_exit |-> FALSE, pay_symbol |-> "None"]
    ELSE IF symbols_on_line[k] = "S" THEN [scatter_exit |-> TRUE, pay_symbol |-> "None"]
    ELSE IF symbols_on_line[k] # "W"
         THEN [scatter_exit |-> FALSE, pay_symbol |-> symbols_on_line[k]]
    ELSE PayScan(symbols_on_line, k + 1)

\* A count that skips gaps: every matching symbol counts, wherever it is.
CountRunSkippingGaps(symbols_on_line, pay_symbol, k) ==
    Cardinality({j \in k..Len(symbols_on_line) :
                    symbols_on_line[j] = pay_symbol \/ symbols_on_line[j] = "W"})

\* Lines 76-82: consecutive matches from the left, wilds count.
RECURSIVE CountRun(_, _, _)
CountRun(symbols_on_line, pay_symbol, k) ==
    IF k > Len(symbols_on_line) THEN 0
    ELSE IF symbols_on_line[k] = pay_symbol \/ symbols_on_line[k] = "W"
         THEN 1 + CountRun(symbols_on_line, pay_symbol, k + 1)
    ELSE 0

\* A lookup that pays a run without an entry as the longest shorter run that has one.
LineResultNearestEntry(pay_symbol, count, paytable) ==
    IF count >= 3 /\ pay_symbol \in DOMAIN paytable
                 /\ \E c \in DOMAIN paytable[pay_symbol] : c <= count
    THEN LET best == CHOOSE c \in DOMAIN paytable[pay_symbol] :
                        /\ c <= count
                        /\ \A d \in DOMAIN paytable[pay_symbol] : d <= count => d <= c
         IN  [win |-> TRUE, symbol |-> pay_symbol, count |-> count,
              payout |-> paytable[pay_symbol][best]]
    ELSE [win |-> FALSE, symbol |-> "None", count |-> 0, payout |-> 0]

\* Lines 84-88: the paytable lookup.
LineResult(pay_symbol, count, paytable) ==
    IF /\ count >= 3
       /\ pay_symbol \in DOMAIN paytable
       /\ count \in DOMAIN paytable[pay_symbol]
    THEN [win |-> TRUE, symbol |-> pay_symbol, count |-> count,
          payout |-> paytable[pay_symbol][count]]
    ELSE NoWin

\* Lines 63-88 on the symbols of one line.  The record keeps the locals
\* pay_symbol and count beside the returned value ret; count stays 0 when the
\* function returned at a scatter, where the code never assigns it.
EvalLine(symbols_on_line, paytable) ==
    LET scan       == PayScan(symbols_on_line, 1)
        pay_symbol == IF scan.pay_symbol = "None" THEN "W" ELSE scan.pay_symbol
        count      == CountRun(symbols_on_line, pay_symbol, 1)
    IN  IF scan.scatter_exit
        THEN [scatter_exit |-> TRUE, pay_symbol |-> "None", count |-> 0, ret |-> NoWin]
        ELSE [scatter_exit |-> FALSE, pay_symbol |-> pay_symbol, count |-> count,
              ret |-> LineResult(pay_symbol, count, paytable)]

\* A Python list subscript within range: a negative index counts from the end.
PyIndex(list, k) == IF k < 0 THEN list[Len(list) + k + 1] ELSE list[k + 1]

\* Line 61: [grid[reel][payline[reel]] for reel in range(NUM_REELS)], from reel on.
RECURSIVE SymbolsFrom(_, _, _)
SymbolsFrom(grid, payline, reel) ==
    IF reel > Len(payline) THEN <<>>
    ELSE <<PyIndex(grid[reel], payline[reel])>> \o SymbolsFrom(grid, payline, reel + 1)

SymbolsOnLine(grid, payline) == SymbolsFrom(grid, payline, 1)

evaluate_payline(grid, payline, paytable) == EvalLine(SymbolsOnLine(grid, payline), paytable).ret

(***************************************************************************)
(* Python floats.  Every payout of the evaluator is an integer divided by  *)
(* len(PAYLINES) plus an integer; it is kept as the exact rational         *)
(* [num, den].  round(x, d) is the nearest multiple of 10^-d, as an integer*)
(* count of those multiples (Scale = 10^d); no value of the model lies     *)
(* half way between two multiples, so the tie rule never applies.          *)
(***************************************************************************)
Divide(a, b) == [num |-> a, den |-> b]

AddInt(q, n) == [num |-> q.num + n * q.den, den |-> q.den]

AddRat(q, r) ==
    IF q.den = r.den THEN [num |-> q.num + r.num, den |-> q.den]
    ELSE [num |-> q.num * r.den + r.num * q.den, den |-> q.den * r.den]

DivInt(q, n) == [num |-> q.num, den |-> q.den * n]

\* A product that leaves the multiplier out.
MulIntDropped(q, n) == q

MulInt(q, n) == [num |-> q.num * n, den |-> q.den]

RatEq(q, r) == q.num * r.den = r.num * q.den

Round(q, Scale) == (2 * q.num * Scale + q.den) \div (2 * q.den)

(***************************************************************************)
(* src/simulator.py: get_visible_grid, evaluate_scatters, evaluate_spin    *)
(***************************************************************************)
\* Lines 42-50: the loop over the reels, from reel_idx on; a column is the
\* symbols at stop, stop + 1, stop + 2 modulo the reel's own length.
RECURSIVE GridColumns(_, _, _)
GridColumns(stop_positions, strips, reel_idx) ==
    IF reel_idx > Len(stop_positions) THEN <<>>
    ELSE LET strip    == strips[reel_idx]
             reel_len == Len(strip)
             stop     == stop_positions[reel_idx]
             column   == << strip[(stop % reel_len) + 1],
                            strip[((stop + 1) % reel_len) + 1],
                            strip[((stop + 2) % reel_len) + 1] >>
         IN  <<column>> \o GridColumns(stop_positions, strips, reel_idx + 1)

\* Lines 35-51.
get_visible_grid(stop_positions, strips) == GridColumns(stop_positions, strips, 1)

\* Lines 96-100: the two nested loops, cell by cell (reel-major).
RECURSIVE ScatterCount(_, _, _)
ScatterCount(grid, reel, row) ==
    IF reel > Len(grid) THEN 0
    ELSE IF row > Len(grid[reel]) THEN ScatterCount(grid, reel + 1, 1)
    ELSE (IF grid[reel][row] = "S" THEN 1 ELSE 0) + ScatterCount(grid, reel, row + 1)

\* A lookup that pays a count above the largest key as the largest key.
GetCapped(table, key) ==
    IF key \in DOMAIN table THEN table[key]
    ELSE IF \E k \in DOMAIN table : k < key
         THEN table[CHOOSE k \in DOMAIN table : \A j \in DOMAIN table : j <= k]
    ELSE 0

\* dict.get(key, 0), lines 102-103.
Get(table, key) == IF key \in DOMAIN table THEN table[key] ELSE 0

\* Lines 91-105.
evaluate_scatters(grid, scatter_pays, free_spins_trigger) ==
    LET scatter_count == ScatterCount(grid, 1, 1)
    IN  [ scatter_count  |-> scatter_count,
          scatter_payout |-> Get(scatter_pays, scatter_count),
          free_spins     |-> Get(free_spins_trigger, scatter_count) ]

\* Lines 116-130: the loop over PAYLINES, from line_idx (0-based) on.
RECURSIVE LineLoop(_, _, _, _)
LineLoop(grid, g, line_idx, acc) ==
    IF line_idx >= Len(g.paylines) THEN acc
    ELSE LET result == evaluate_payline(grid, g.paylines[line_idx + 1], g.paytable)
         IN  IF result.win
             THEN LineLoop(grid, g, line_idx + 1,
                      [ total_line_payout |-> acc.total_line_payout + result.payout,
                        winning_lines     |-> Append(acc.winning_lines,
                            [ line   |-> line_idx + 1,
                              symbol |-> result.symbol,
                              count  |-> result.count,
                              payout |-> result.payout ]) ])
             ELSE LineLoop(grid, g, line_idx + 1, acc)

\* A total that divides the scatter payout by the number of paylines too.
TotalPayoutAllDivided(total_line_payout, num_paylines, scatter_payout) ==
    [num |-> total_line_payout + scatter_payout, den |-> num_paylines]

\* Lines 132-139: line payouts over the number of paylines, plus the scatter
\* payout, which pays on the total bet.
TotalPayoutMultiplier(total_line_payout, num_paylines, scatter_payout) ==
    AddInt(Divide(total_line_payout, num_paylines), scatter_payout)

\* Lines 108-150.  payout is the first component of the returned pair.
evaluate_spin(stop_positions, g) ==
    LET grid  == get_visible_grid(stop_positions, g.strips)
        lines == LineLoop(grid, g, 0, [total_line_payout |-> 0, winning_lines |-> <<>>])
        sc    == evaluate_scatters(grid, g.scatter_pays, g.free_spins_trigger)
        total_payout_multiplier ==
            TotalPayoutMultiplier(lines.total_line_payout, Len(g.paylines), sc.scatter_payout)
    IN  [ payout  |-> total_payout_multiplier,
          details |-> [ grid           |-> grid,
                        winning_lines  |-> lines.winning_lines,
                        scatter_count  |-> sc.scatter_count,
                        scatter_payout |-> sc.scatter_payout,
                        free_spins     |-> sc.free_spins,
                        total_payout   |-> Round(total_payout_multiplier, 10000) ] ]

(***************************************************************************)
(* The module-level generator of `random` (simulator.py line 16), seeded   *)
(* once when the module is imported (line 27).  Every draw maps the        *)
(* generator state to a value and a next state; the Mersenne Twister is    *)
(* abstracted to a full-period multiplicative generator on 1..RngModulus-1.*)
(***************************************************************************)
RngModulus == 101

RngMultiplier == 2

\* random.seed(a)
Seed(a) == (a % (RngModulus - 1)) + 1

RngNext(s) == (RngMultiplier * s) % RngModulus

\* random.randint(a, b)
RandInt(s, a, b) == [value |-> a + ((RngNext(s) - 1) % (b - a + 1)), rng |-> RngNext(s)]

\* random.choices(population, weights = weights, k = 1)[0], lines 223-227;
\* the weights are in hundredths, and random() is (state - 1) / 100.
RECURSIVE Bisect(_, _, _, _)
Bisect(weights, u, k, cum) ==
    IF k = Len(weights) \/ u < cum + weights[k] THEN k
    ELSE Bisect(weights, u, k + 1, cum + weights[k])

Choices(s, population, weights) ==
    [value |-> population[Bisect(weights, RngNext(s) - 1, 1, 0)], rng |-> RngNext(s)]

(***************************************************************************)
(* src/simulator.py: run_simulation, simulate_free_spins_mode,             *)
(* export_base_game_csv                                                    *)
(***************************************************************************)
\* slot_config.py line 52: one length for all reels, that of the first strip.
STOPS_PER_REEL(g) == Len(g.strips[1])

\* Lines 169 and 233: [random.randint(0, STOPS_PER_REEL - 1) for _ in range(NUM_REELS)]
RECURSIVE DrawStops(_, _, _)
DrawStops(s, stops_per_reel, n) ==
    IF n = 0 THEN [stops |-> <<>>, rng |-> s]
    ELSE LET d    == RandInt(s, 0, stops_per_reel - 1)
             rest == DrawStops(d.rng, stops_per_reel, n - 1)
         IN  [stops |-> <<d.value>> \o rest.stops, rng |-> rest.rng]

\* defaultdict(lambda: {"count": 0, "examples": []}), lines 164 and 218; a
\* key is a payout rounded to 2 decimals, kept as its number of hundredths.
EmptyTable == [k \in {} |-> [count |-> 0, examples |-> <<>>]]

\* Reading a key of the defaultdict creates it.
Touch(buckets, key) ==
    IF key \in DOMAIN buckets THEN buckets
    ELSE buckets @@ (key :> [count |-> 0, examples |-> <<>>])

\* A count that is set, not incremented.
AccumulateSetCount(buckets, payout_key, example, cap) ==
    LET b1 == Touch(buckets, payout_key)
        b2 == [b1 EXCEPT ![payout_key].count = 1]
    IN  IF Len(b2[payout_key].examples) < cap
        THEN [b2 EXCEPT ![payout_key].examples = Append(@, example)]
        ELSE b2

\* An accumulation that keeps every trial as an example.
AccumulateUncapped(buckets, payout_key, example, cap) ==
    LET b1 == Touch(buckets, payout_key)
    IN  [b1 EXCEPT ![payout_key].count = @ + 1, ![payout_key].examples = Append(@, example)]

\* Lines 174-183 (and 242-247): count the trial in its bucket and keep it as
\* an example while the bucket holds fewer than cap examples.
Accumulate(buckets, payout_key, example, cap) ==
    LET b1 == Touch(buckets, payout_key)
        b2 == [b1 EXCEPT ![payout_key].count = @ + 1]
    IN  IF Len(b2[payout_key].examples) < cap
        THEN [b2 EXCEPT ![payout_key].examples = Append(@, example)]
        ELSE b2

\* Line 236: sum(w["payout"] for w in details["winning_lines"])
RECURSIVE LinePayoutSum(_)
LinePayoutSum(winning_lines) ==
    IF winning_lines = <<>> THEN 0
    ELSE Head(winning_lines).payout + LinePayoutSum(Tail(winning_lines))

\* Line 250: sum(p * d["count"] for p, d in fs_outcomes.items()), in hundredths.
RECURSIVE WeightedSum(_, _)
WeightedSum(buckets, keys) ==
    IF keys = {} THEN 0
    ELSE LET k == CHOOSE x \in keys : TRUE
         IN  k * buckets[k].count + WeightedSum(buckets, keys \ {k})

\* sorted(outcome_buckets.items(), key = lambda x: x[0]), line 268: the keys
\* in ascending order.
RECURSIVE SortedKeys(_)
SortedKeys(keys) ==
    IF keys = {} THEN <<>>
    ELSE LET m == CHOOSE x \in keys : \A y \in keys : x <= y
         IN  <<m>> \o SortedKeys(keys \ {m})

\* round(count / total_samples, 10), line 277, as the pair [hi, lo] that
\* stands for hi * 10^-5 + lo * 10^-10 (two limbs of five decimal digits).
Probability(count, total_samples) ==
    LET x    == count * 100000
        hi   == x \div total_samples
        y    == (x % total_samples) * 100000
        lo   == (y \div total_samples)
                   + (IF 2 * (y % total_samples) >= total_samples THEN 1 ELSE 0)
    IN  IF lo >= 100000 THEN [hi |-> hi + 1, lo |-> lo - 100000] ELSE [hi |-> hi, lo |-> lo]

\* Lines 272-280: one row per bucket, numbered from sim_number in the order
\* of keys.
RECURSIVE RowsFrom(_, _, _, _)
RowsFrom(buckets, total_samples, keys, sim_number) ==
    IF keys = <<>> THEN <<>>
    ELSE << [ simulation_number |-> sim_number,
              probability       |-> Probability(buckets[Head(keys)].count, total_samples),
              payout_multiplier |-> Head(keys) ] >>
         \o RowsFrom(buckets, total_samples, Tail(keys), sim_number + 1)

\* Lines 268-280: the rows in ascending payout order.
Rows(buckets, total_samples) ==
    RowsFrom(buckets, total_samples, SortedKeys(DOMAIN buckets), 0)

\* Lines 336-349: one event per bucket that holds an example, keyed by the
\* bucket's number in ascending payout order; sim_number advances for every
\* bucket, with or without an example.
RECURSIVE EventsFrom(_, _, _)
EventsFrom(buckets, keys, sim_number) ==
    IF keys = <<>> THEN <<>>
    ELSE LET payout == Head(keys)
             data   == buckets[payout]
             rest   == EventsFrom(buckets, Tail(keys), sim_number + 1)
         IN  IF data.examples # <<>>
             THEN LET example == data.examples[1]
                  IN  << [ key               |-> sim_number,
                           payout_multiplier |-> payout,
                           grid              |-> example.grid,
                           winning_lines     |-> example.winning_lines,
                           scatter_count     |-> example.scatter_count ] >> \o rest
             ELSE rest

\* Lines 329-360: the events dict, as the sequence of its entries.
Events(buckets) == EventsFrom(buckets, SortedKeys(DOMAIN buckets), 0)

(***************************************************************************)
(* src/rtp_tuner.py.  The tuner copies and mutates lists of lists, so its  *)
(* lists are objects: heap maps a list id to the list's symbols, and       *)
(* REEL_STRIPS, strips and best_strips are sequences of list ids.          *)
(***************************************************************************)
\* The ids of the inner lists of slot_config.REEL_STRIPS.
ReelStripIds == [r \in 1..NUM_REELS |-> r]

\* The lists behind a sequence of ids, from the k-th on.
RECURSIVE DerefFrom(_, _, _)
DerefFrom(h, ids, k) ==
    IF k > Len(ids) THEN <<>> ELSE <<h[ids[k]]>> \o DerefFrom(h, ids, k + 1)

Deref(h, ids) == DerefFrom(h, ids, 1)

\* The id of a newly created list: the lowest id not in use.
NewId(h) ==
    CHOOSE id \in 1..(Cardinality(DOMAIN h) + 1) :
        /\ id \notin DOMAIN h
        /\ \A j \in 1..(id - 1) : j \in DOMAIN h

\* [list(s) for s in lists], lines 69, 79 and 120, from the k-th list on:
\* every inner list is a new object with the same symbols.
RECURSIVE CopyListsFrom(_, _, _)
CopyListsFrom(h, ids, k) ==
    IF k > Len(ids) THEN [heap |-> h, ids |-> <<>>]
    ELSE LET id   == NewId(h)
             rest == CopyListsFrom(h @@ (id :> h[ids[k]]), ids, k + 1)
         IN  [heap |-> rest.heap, ids |-> <<id>> \o rest.ids]

\* A copy that shares the inner lists.
CopyListsShared(h, ids) == [heap |-> h, ids |-> ids]

CopyLists(h, ids) == CopyListsFrom(h, ids, 1)

\* The lists no name refers to any more are freed.
Collect(h, live) == [id \in (DOMAIN h \cap live) |-> h[id]]

Ids(ids) == {ids[k] : k \in DOMAIN ids}

\* quick_sim, lines 39-42: the first loop over the symbols of a line.
RECURSIVE QuickPaySym(_, _)
QuickPaySym(syms, k) ==
    IF k > Len(syms) THEN "None"
    ELSE IF syms[k] = "S" THEN "None"
    ELSE IF syms[k] # "W" THEN syms[k]
    ELSE QuickPaySym(syms, k + 1)

\* Lines 47-50.
RECURSIVE QuickCount(_, _, _)
QuickCount(syms, pay_sym, k) ==
    IF k > Len(syms) THEN 0
    ELSE IF syms[k] = pay_sym \/ syms[k] = "W" THEN 1 + QuickCount(syms, pay_sym, k + 1)
    ELSE 0

\* A line evaluation without lines 43-44: a line of wilds only pays nothing.
QuickLineWithoutAllWild(syms, paytable) ==
    LET pay_sym == QuickPaySym(syms, 1)
        count   == QuickCount(syms, pay_sym, 1)
    IN  IF pay_sym = "None" THEN 0
        ELSE IF count >= 3 /\ pay_sym \in DOMAIN paytable /\ count \in DOMAIN paytable[pay_sym]
        THEN paytable[pay_sym][count]
        ELSE 0

\* Lines 38-53: what one payline adds to line_total.
QuickLine(syms, paytable) ==
    LET scanned == QuickPaySym(syms, 1)
        pay_sym == IF /\ scanned = "None"
                      /\ \A k \in DOMAIN syms : syms[k] = "W" \/ syms[k] = "S"
                      /\ \A k \in DOMAIN syms : syms[k] # "S"
                   THEN "W" ELSE scanned
        count   == QuickCount(syms, pay_sym, 1)
    IN  IF pay_sym = "None" THEN 0
        ELSE IF count >= 3 /\ pay_sym \in DOMAIN paytable /\ count \in DOMAIN paytable[pay_sym]
        THEN paytable[pay_sym][count]
        ELSE 0

\* Lines 36-53: the loop over PAYLINES, from the k-th on.
RECURSIVE QuickLineTotal(_, _, _)
QuickLineTotal(grid, g, k) ==
    IF k > Len(g.paylines) THEN 0
    ELSE QuickLine(SymbolsOnLine(grid, g.paylines[k]), g.paytable)
             + QuickLineTotal(grid, g, k + 1)

\* Lines 25-33 for given stops: the columns quick_sim reads off the strips,
\* from reel r on.
RECURSIVE QuickColumns(_, _, _)
QuickColumns(strip_lists, stop_positions, r) ==
    IF r > NUM_REELS THEN <<>>
    ELSE LET strip == strip_lists[r]
             stop  == stop_positions[r]
             col   == << strip[(stop % Len(strip)) + 1],
                         strip[((stop + 1) % Len(strip)) + 1],
                         strip[((stop + 2) % Len(strip)) + 1] >>
         IN  <<col>> \o QuickColumns(strip_lists, stop_positions, r + 1)

\* Lines 35-59 for one grid: what one spin adds to total_payout, line 55
\* (line_total / num_paylines) and then line 59 (the scatter pay).
QuickSpinPayout(grid, g) ==
    AddInt(Divide(QuickLineTotal(grid, g, 1), Len(g.paylines)),
           Get(g.scatter_pays, ScatterCount(grid, 1, 1)))

\* Lines 25-33: one stop per reel, drawn within the reel's own length.
RECURSIVE QuickGrid(_, _, _)
QuickGrid(strip_lists, s, r) ==
    IF r > Len(strip_lists) THEN [grid |-> <<>>, rng |-> s]
    ELSE LET strip == strip_lists[r]
             d     == RandInt(s, 0, Len(strip) - 1)
             stop  == d.value
             col   == << strip[(stop % Len(strip)) + 1],
                         strip[((stop + 1) % Len(strip)) + 1],
                         strip[((stop + 2) % Len(strip)) + 1] >>
             rest  == QuickGrid(strip_lists, d.rng, r + 1)
         IN  [grid |-> <<col>> \o rest.grid, rng |-> rest.rng]

\* Lines 23-59: total_payout after n more spins, as the numerator of a
\* fraction over num_paylines.
RECURSIVE QuickSimLoop(_, _, _, _, _)
QuickSimLoop(strip_lists, s, g, n, total) ==
    IF n = 0 THEN [total |-> total, rng |-> s]
    ELSE LET drawn == QuickGrid(strip_lists, s, 1)
             sc    == ScatterCount(drawn.grid, 1, 1)
         IN  QuickSimLoop(strip_lists, drawn.rng, g, n - 1,
                          total + QuickLineTotal(drawn.grid, g, 1)
                                + Get(g.scatter_pays, sc) * Len(g.paylines))

\* quick_sim(strips, num_spins), lines 18-61.
quick_sim(strip_lists, s, g, num_spins) ==
    LET run == QuickSimLoop(strip_lists, s, g, num_spins, 0)
    IN  [rtp |-> Divide(run.total, Len(g.paylines) * num_spins), rng |-> run.rng]

\* Lines 75-76.
high_value == <<"W", "H1", "H2", "H3">>

\* A low-value list that also holds L2.
low_value_with_L2 == <<"L2", "L3", "L4">>

low_value == <<"L3", "L4">>

\* [i for i, s in enumerate(strip) if s in values], lines 97 and 111.
RECURSIVE Positions(_, _, _)
Positions(strip, values, k) ==
    IF k > Len(strip) THEN <<>>
    ELSE (IF \E v \in DOMAIN values : values[v] = strip[k] THEN <<k - 1>> ELSE <<>>)
             \o Positions(strip, values, k + 1)

\* random.choice(seq)
RandChoice(s, seq) ==
    LET d == RandInt(s, 0, Len(seq) - 1)
    IN  [value |-> seq[d.value + 1], rng |-> d.rng]

RECURSIVE SumSeq(_)
SumSeq(seq) == IF seq = <<>> THEN 0 ELSE Head(seq) + SumSeq(Tail(seq))

\* random.choices(population, weights = weights, k = 1)[0] with integer
\* weights, lines 101-105: random() * total against the cumulative weights.
WeightedChoice(s, population, weights) ==
    [ value |-> population[Bisect([k \in DOMAIN weights |-> 100 * weights[k]],
                                  SumSeq(weights) * (RngNext(s) - 1), 1, 0)],
      rng   |-> RngNext(s) ]

RatSub(q, r) ==
    IF q.den = r.den THEN [num |-> q.num - r.num, den |-> q.den]
    ELSE [num |-> q.num * r.den - r.num * q.den, den |-> q.den * r.den]

\* abs(q)
RatAbs(q) == [num |-> IF q.num < 0 THEN -q.num ELSE q.num, den |-> q.den]

\* q < r
RatLess(q, r) ==
    IF q.den = r.den THEN q.num < r.num ELSE q.num * r.den < r.num * q.den

\* int(abs(rtp_diff) * factor), lines 94 and 109
IntOfAbsTimes(rtp_diff, factor) == (RatAbs(rtp_diff).num * factor) \div rtp_diff.den

\* A tolerance test that never succeeds.
NeverWithinTolerance(rtp_diff) == FALSE

\* abs(rtp_diff) < 0.005, line 84
WithinTolerance(rtp_diff) == RatAbs(rtp_diff).num * 200 < rtp_diff.den

\* A number of swaps without the cap of 3.
SwapsUpUncapped(rtp_diff) ==
    LET swaps == IntOfAbsTimes(rtp_diff, 15)
    IN  IF swaps < 1 THEN 1 ELSE swaps

\* min(max(1, int(abs(rtp_diff) * 15)), 3), lines 94-95
SwapsUp(rtp_diff) ==
    LET swaps == IF IntOfAbsTimes(rtp_diff, 15) < 1 THEN 1 ELSE IntOfAbsTimes(rtp_diff, 15)
    IN  IF swaps < 3 THEN swaps ELSE 3

\* min(max(1, int(abs(rtp_diff) * 10)), 2), lines 109-110
SwapsDown(rtp_diff) ==
    LET swaps == IF IntOfAbsTimes(rtp_diff, 10) < 1 THEN 1 ELSE IntOfAbsTimes(rtp_diff, 10)
    IN  IF swaps < 2 THEN swaps ELSE 2

\* Lines 95-106: n more rounds of replacing a low-value stop of the strip.
RECURSIVE SwapLowForHigh(_, _, _)
SwapLowForHigh(strip, s, n) ==
    IF n = 0 THEN [strip |-> strip, rng |-> s]
    ELSE LET low_positions == Positions(strip, low_value, 1)
         IN  IF low_positions = <<>> THEN SwapLowForHigh(strip, s, n - 1)
             ELSE LET pos     == RandChoice(s, low_positions)
                      new_sym == WeightedChoice(pos.rng, high_value, <<3, 4, 5, 6>>)
                  IN  SwapLowForHigh([strip EXCEPT ![pos.value + 1] = new_sym.value],
                                     new_sym.rng, n - 1)

\* Lines 110-114: n more rounds of replacing a high-value stop of the strip.
RECURSIVE SwapHighForLow(_, _, _)
SwapHighForLow(strip, s, n) ==
    IF n = 0 THEN [strip |-> strip, rng |-> s]
    ELSE LET high_positions == Positions(strip, high_value, 1)
         IN  IF high_positions = <<>> THEN SwapHighForLow(strip, s, n - 1)
             ELSE LET pos     == RandChoice(s, high_positions)
                      new_sym == RandChoice(pos.rng, low_value)
                  IN  SwapHighForLow([strip EXCEPT ![pos.value + 1] = new_sym.value],
                                     new_sym.rng, n - 1)

\* Lines 89-114: the loop over the reels, from reel_idx (1-based) on; the
\* list strips[reel_idx] is changed in place.
RECURSIVE PerturbReels(_, _, _, _, _)
PerturbReels(h, ids, reel_idx, s, rtp_diff) ==
    IF reel_idx > Len(ids) THEN [heap |-> h, rng |-> s]
    ELSE LET strip   == h[ids[reel_idx]]
             swapped == IF rtp_diff.num > 0
                        THEN SwapLowForHigh(strip, s, SwapsUp(rtp_diff))
                        ELSE SwapHighForLow(strip, s, SwapsDown(rtp_diff))
         IN  PerturbReels([h EXCEPT ![ids[reel_idx]] = swapped.strip], ids, reel_idx + 1,
                          swapped.rng, rtp_diff)

\* A comparison that always prefers the latest sample.
BetterAlways(rtp, best, target) == TRUE

\* abs(current_rtp - target_rtp) < abs(best_rtp - target_rtp), line 118
Better(rtp, best, target) == RatLess(RatAbs(RatSub(rtp, target)), RatAbs(RatSub(best, target)))

(***************************************************************************)
(* The values of the variables before the operation they belong to ran.    *)
(***************************************************************************)
NotEvaluated == [scatter_exit |-> FALSE, pay_symbol |-> "None", count |-> 0,
                 ret |-> NoWin, evaluated |-> FALSE]

NotSpun == [spun |-> FALSE, payout |-> Divide(0, 1), details |-> <<>>]

LineIdle == line = <<>> /\ lineRes = NotEvaluated

NotQuick == [done |-> FALSE, grid |-> <<>>, payout |-> Divide(0, 1)]

SpinIdle == stops = <<>> /\ spinRes = NotSpun /\ quickRes = NotQuick

\* The process right after `import simulator`: the generator seeded (line 27),
\* no sampling function called yet.
SimIdle ==
    /\ rng = Seed(42)
    /\ pc = "idle"
    /\ num_samples = 0
    /\ i = 0
    /\ outcome_buckets = EmptyTable
    /\ total_payout = Divide(0, 1)
    /\ num_fs = 0
    /\ spin = 0
    /\ session_payout = Divide(0, 1)
    /\ session_grids = <<>>
    /\ returned = <<>>
    /\ other_draws = 0
    /\ csv_rows = <<>>
    /\ base_outcomes = EmptyTable
    /\ game_events = <<>>

\* No call of tune_strips yet; the lists of the tuner's process are not
\* followed outside SpecTune.
TuneIdle ==
    /\ heap = <<>>
    /\ target_rtp = Divide(0, 1)
    /\ iterations = 0
    /\ iteration = 0
    /\ working_strips = <<>>
    /\ best_strips = <<>>
    /\ current_rtp = Divide(0, 1)
    /\ best_rtp = Divide(0, 1)
    /\ starting_rtp = Divide(0, 1)
    /\ quick_sims = 0
    /\ tune_calls = 0
    /\ tuned = <<>>

(***************************************************************************)
(* SpecLine: evaluate_payline applied to every line over the symbols of a  *)
(* Game Definition.                                                        *)
(***************************************************************************)
LineGameDefs == {Config, Mixed, ExampleFull, ExampleSparse}

LineInit ==
    /\ TuneIdle
    /\ gd \in LineGameDefs
    /\ line \in [1..NUM_REELS -> SymbolsOf(gd)]
    /\ lineRes = NotEvaluated
    /\ SpinIdle
    /\ SimIdle

EvaluatePayline ==
    /\ ~lineRes.evaluated
    /\ lineRes' = LET e == EvalLine(line, gd.paytable)
                   IN  [scatter_exit |-> e.scatter_exit, pay_symbol |-> e.pay_symbol,
                        count |-> e.count, ret |-> e.ret, evaluated |-> TRUE]
    /\ UNCHANGED <<gd, exportVars, tuneVars, line, spinVars, simVars>>

LineNext == EvaluatePayline

SpecLine == LineInit /\ [][LineNext]_vars

(***************************************************************************)
(* SpecSpin: evaluate_spin applied to every set of stop positions up to    *)
(* MaxStop (beyond the shorter strips, so that the modulo wraps).          *)
(***************************************************************************)
MaxStop == 6

SpinGameDefs == {Mixed, ExampleFull, ExampleSparse}

SpinInit ==
    /\ TuneIdle
    /\ gd \in SpinGameDefs
    /\ stops \in [1..NUM_REELS -> 0..MaxStop]
    /\ spinRes = NotSpun
    /\ quickRes = NotQuick
    /\ LineIdle
    /\ SimIdle

EvaluateSpin ==
    /\ ~spinRes.spun
    /\ spinRes' = LET r == evaluate_spin(stops, gd)
                  IN  [spun |-> TRUE, payout |-> r.payout, details |-> r.details]
    /\ UNCHANGED <<gd, exportVars, tuneVars, stops, quickRes, lineVars, simVars>>

SpinNext == EvaluateSpin

SpecSpin == SpinInit /\ [][SpinNext]_vars

(***************************************************************************)
(* Spec: the process that imported simulator.py.  While it is idle it may  *)
(* call run_simulation or simulate_free_spins_mode with any sample count   *)
(* up to the bounds, export the table of a finished base run, or run other *)
(* code that draws from the shared generator (rtp_tuner.quick_sim does).   *)
(* A sampling function runs to its return, one loop iteration per step.    *)
(***************************************************************************)
MaxSamples == 4

MaxSessions == 1

MaxCalls == 2

MaxOtherDraws == 1

SimGameDefs == {Config, Mixed, ExampleFull, ExampleSparse}

Init ==
    /\ TuneIdle
    /\ gd \in SimGameDefs
    /\ SimIdle
    /\ SpinIdle
    /\ LineIdle

\* Other code of the process takes one draw from the module-level generator.
OtherDraw ==
    /\ pc = "idle"
    /\ other_draws < MaxOtherDraws
    /\ rng' = RngNext(rng)
    /\ other_draws' = other_draws + 1
    /\ UNCHANGED <<gd, exportVars, tuneVars, lineVars, spinVars, pc, num_samples, i, outcome_buckets, total_payout,
                   num_fs, spin, session_payout, session_grids, returned, csv_rows>>

\* run_simulation(num_samples), lines 155-165.
CallRunSimulation ==
    /\ pc = "idle"
    /\ Len(returned) < MaxCalls
    /\ \E n \in 1..MaxSamples : num_samples' = n
    /\ pc' = "run_simulation"
    /\ i' = 0
    /\ outcome_buckets' = EmptyTable
    /\ total_payout' = Divide(0, 1)
    /\ UNCHANGED <<gd, exportVars, tuneVars, lineVars, spinVars, rng, num_fs, spin, session_payout,
                   session_grids, returned, other_draws, csv_rows>>

\* One iteration of the loop of lines 167-185.
Trial ==
    /\ pc = "run_simulation"
    /\ i < num_samples
    /\ LET d          == DrawStops(rng, STOPS_PER_REEL(gd), NUM_REELS)
           r          == evaluate_spin(d.stops, gd)
           payout_key == Round(r.payout, 100)
           example    == [ stops         |-> d.stops,
                           grid          |-> r.details.grid,
                           winning_lines |-> r.details.winning_lines,
                           scatter_count |-> r.details.scatter_count ]
       IN  /\ rng' = d.rng
           /\ stops' = d.stops
           /\ spinRes' = [spun |-> TRUE, payout |-> r.payout, details |-> r.details]
           /\ UNCHANGED quickRes
           /\ outcome_buckets' = Accumulate(outcome_buckets, payout_key, example, 3)
           /\ total_payout' = AddRat(total_payout, r.payout)
    /\ i' = i + 1
    /\ UNCHANGED <<gd, exportVars, tuneVars, lineVars, pc, num_samples, num_fs, spin, session_payout,
                   session_grids, returned, other_draws, csv_rows>>

\* Lines 191-205: the report and the return.  The hit-rate line (202) reads
\* outcome_buckets[0.0], which creates that bucket in the defaultdict.
ReturnRunSimulation ==
    /\ pc = "run_simulation"
    /\ i = num_samples
    /\ LET actual_rtp == DivInt(total_payout, num_samples)
           table      == Touch(outcome_buckets, 0)
       IN  /\ outcome_buckets' = table
           /\ returned' = Append(returned,
                  [ fn |-> "run_simulation", num_samples |-> num_samples,
                    table |-> table, rtp |-> actual_rtp ])
    /\ pc' = "idle"
    /\ UNCHANGED <<gd, exportVars, tuneVars, lineVars, spinVars, rng, num_samples, i, total_payout, num_fs, spin,
                   session_payout, session_grids, other_draws, csv_rows>>

\* simulate_free_spins_mode(num_sessions), lines 210-218.
CallFreeSpins ==
    /\ pc = "idle"
    /\ Len(returned) < MaxCalls
    /\ \E n \in 1..MaxSessions : num_samples' = n
    /\ pc' = "fs_sessions"
    /\ i' = 0
    /\ outcome_buckets' = EmptyTable
    /\ UNCHANGED <<gd, exportVars, tuneVars, lineVars, spinVars, rng, total_payout, num_fs, spin, session_payout,
                   session_grids, returned, other_draws, csv_rows>>

\* Lines 220-230: a session starts with the draw of its number of spins.
BeginSession ==
    /\ pc = "fs_sessions"
    /\ i < num_samples
    /\ LET c == Choices(rng, <<10, 15, 25>>, <<85, 12, 3>>)
       IN  /\ num_fs' = c.value
           /\ rng' = c.rng
    /\ session_payout' = Divide(0, 1)
    /\ session_grids' = <<>>
    /\ spin' = 0
    /\ pc' = "fs_spins"
    /\ UNCHANGED <<gd, exportVars, tuneVars, lineVars, spinVars, num_samples, i, outcome_buckets, total_payout,
                   returned, other_draws, csv_rows>>

\* One iteration of the loop of lines 232-239.
FreeSpin ==
    /\ pc = "fs_spins"
    /\ spin < num_fs
    /\ LET d           == DrawStops(rng, STOPS_PER_REEL(gd), NUM_REELS)
           r           == evaluate_spin(d.stops, gd)
           line_payout == Divide(LinePayoutSum(r.details.winning_lines), Len(gd.paylines))
           boosted     == MulInt(line_payout, FREE_SPINS_MULTIPLIER)
       IN  /\ rng' = d.rng
           /\ stops' = d.stops
           /\ spinRes' = [spun |-> TRUE, payout |-> r.payout, details |-> r.details]
           /\ UNCHANGED quickRes
           /\ session_payout' = AddRat(session_payout, boosted)
           /\ session_grids' = Append(session_grids, r.details.grid)
    /\ spin' = spin + 1
    /\ UNCHANGED <<gd, exportVars, tuneVars, lineVars, pc, num_samples, i, outcome_buckets, total_payout, num_fs,
                   returned, other_draws, csv_rows>>

\* Lines 241-247: the session total is bucketed.
EndSession ==
    /\ pc = "fs_spins"
    /\ spin = num_fs
    /\ LET payout_key == Round(session_payout, 100)
           example    == [ num_spins |-> num_fs,
                           grids     |-> SubSeq(session_grids, 1, 3) ]
       IN  outcome_buckets' = Accumulate(outcome_buckets, payout_key, example, 2)
    /\ i' = i + 1
    /\ pc' = "fs_sessions"
    /\ UNCHANGED <<gd, exportVars, tuneVars, lineVars, spinVars, rng, num_samples, total_payout, num_fs, spin,
                   session_payout, session_grids, returned, other_draws, csv_rows>>

\* Lines 249-255.
ReturnFreeSpins ==
    /\ pc = "fs_sessions"
    /\ i = num_samples
    /\ LET avg_payout == Divide(WeightedSum(outcome_buckets, DOMAIN outcome_buckets),
                                100 * num_samples)
       IN  returned' = Append(returned,
               [ fn |-> "simulate_free_spins_mode", num_samples |-> num_samples,
                 table |-> outcome_buckets, rtp |-> avg_payout ])
    /\ pc' = "idle"
    /\ UNCHANGED <<gd, exportVars, tuneVars, lineVars, spinVars, rng, num_samples, i, outcome_buckets, total_payout,
                   num_fs, spin, session_payout, session_grids, other_draws, csv_rows>>

\* main, lines 400 and 408: export_base_game_csv(base_outcomes,
\* NUM_BASE_SAMPLES), lines 260-293, on the table and the sample count of a
\* finished base run.
ExportBaseGameCsv ==
    /\ pc = "idle"
    /\ \E k \in 1..Len(returned) :
          /\ returned[k].fn = "run_simulation"
          /\ base_outcomes' = returned[k].table
          /\ csv_rows' = Rows(returned[k].table, returned[k].num_samples)
    /\ pc' = "exported"
    /\ UNCHANGED <<gd, tuneVars, lineVars, spinVars, rng, num_samples, i, outcome_buckets,
                   total_payout, num_fs, spin, session_payout, session_grids, returned,
                   other_draws, game_events>>

\* main, line 410: export_game_events(base_outcomes, "base"), lines 329-360;
\* the exports are the last thing main does.
ExportGameEvents ==
    /\ pc = "exported"
    /\ game_events' = Events(base_outcomes)
    /\ pc' = "done"
    /\ UNCHANGED <<gd, tuneVars, lineVars, spinVars, rng, num_samples, i, outcome_buckets,
                   total_payout, num_fs, spin, session_payout, session_grids, returned,
                   other_draws, csv_rows, base_outcomes>>

Next ==
    \/ OtherDraw
    \/ CallRunSimulation
    \/ Trial
    \/ ReturnRunSimulation
    \/ CallFreeSpins
    \/ BeginSession
    \/ FreeSpin
    \/ EndSession
    \/ ReturnFreeSpins
    \/ ExportBaseGameCsv
    \/ ExportGameEvents

Spec == Init /\ [][Next]_vars

(***************************************************************************)
(* SpecUnchecked: the same process under a Game Definition that breaks an  *)
(* invariant of the configuration and that Python still runs: a payline    *)
(* row of -1, a paytable symbol that is not in SYMBOLS.                    *)
(***************************************************************************)
UncheckedGameDefs == {ConfigRowMinusOne, ConfigUnknownSymbol}

UncheckedInit ==
    /\ TuneIdle
    /\ gd \in UncheckedGameDefs
    /\ SimIdle
    /\ SpinIdle
    /\ LineIdle

SpecUnchecked == UncheckedInit /\ [][Next]_vars

(***************************************************************************)
(* SpecTune: a process that imported rtp_tuner.py and calls tune_strips,   *)
(* possibly several times, with any target and iteration count up to the   *)
(* bounds.  quick_sim runs QuickSimSpins spins (num_spins, 500_000 in the  *)
(* source).  One step is the entry of the call, one round of the loop of   *)
(* line 81, or the return.                                                 *)
(***************************************************************************)
MaxIterations == 2

QuickSimSpins == 2

MaxTuneCalls == 2

\* slot_config.py, line 113: 0.96
TARGET_RTP == Divide(24, 25)

Targets == {TARGET_RTP, Divide(0, 1), Divide(5, 2)}

\* Short strips over the symbols of slot_config: reel 3 holds no low-value
\* symbol of the tuner and reel 4 no high-value one.
TunerSmall ==
    [ strips             |-> << <<"L3", "H1", "L4", "S", "L1", "W">>,
                                <<"L4", "L3", "H2", "L2", "S">>,
                                <<"H1", "H2", "W", "L1">>,
                                <<"L3", "L4", "L3", "S", "L2">>,
                                <<"W", "L3", "H3", "L4", "L1", "S">> >>,
      paylines           |-> << <<1, 1, 1, 1, 1>>, <<0, 0, 0, 0, 0>> >>,
      paytable           |-> PAYTABLE,
      scatter_pays       |-> SCATTER_PAYS,
      free_spins_trigger |-> FREE_SPINS_TRIGGER ]

\* Strips that pay on most spins.
TunerRich ==
    [ TunerSmall EXCEPT !.strips = << <<"W", "H1", "W", "L1">>,
                                      <<"H1", "W", "H1", "W", "L2">>,
                                      <<"W", "W", "H1", "S">>,
                                      <<"H1", "W", "L3", "W">>,
                                      <<"W", "H1", "W", "H2", "L4">> >> ]

TuneGameDefs == {Config, TunerSmall, TunerRich}

\* The process after `import rtp_tuner`: the generator seeded (line 16), the
\* lists of REEL_STRIPS the only lists.
TuneInit ==
    /\ gd \in TuneGameDefs
    /\ SimIdle
    /\ SpinIdle
    /\ LineIdle
    /\ heap = gd.strips
    /\ target_rtp = Divide(0, 1)
    /\ iterations = 0
    /\ iteration = 0
    /\ working_strips = <<>>
    /\ best_strips = <<>>
    /\ current_rtp = Divide(0, 1)
    /\ best_rtp = Divide(0, 1)
    /\ starting_rtp = Divide(0, 1)
    /\ quick_sims = 0
    /\ tune_calls = 0
    /\ tuned = <<>>

\* tune_strips(target_rtp, iterations), lines 64-79.  The lists of an earlier
\* call are no longer referred to.
CallTuneStrips ==
    /\ pc \in {"idle", "tuned"}
    /\ tune_calls < MaxTuneCalls
    /\ \E t \in Targets : \E n \in 0..MaxIterations :
          /\ target_rtp' = t
          /\ iterations' = n
    /\ LET h0     == Collect(heap, Ids(ReelStripIds))
           copied == CopyLists(h0, ReelStripIds)
           sim    == quick_sim(Deref(copied.heap, copied.ids), rng, gd, QuickSimSpins)
           best   == CopyLists(copied.heap, copied.ids)
       IN  /\ working_strips' = copied.ids
           /\ current_rtp' = sim.rtp
           /\ starting_rtp' = sim.rtp
           /\ rng' = sim.rng
           /\ best_rtp' = sim.rtp
           /\ best_strips' = best.ids
           /\ heap' = best.heap
    /\ iteration' = 0
    /\ quick_sims' = 1
    /\ tune_calls' = tune_calls + 1
    /\ pc' = "tune_strips"
    /\ UNCHANGED <<gd, lineVars, spinVars, exportVars, runVars, tuned>>

\* Lines 125-144: the report and the return.
TuneResult == [best_strips |-> Deref(heap, best_strips), best_rtp |-> best_rtp]

\* Lines 82-86: the ratio is within the tolerance; the loop is left.
TuneBreak ==
    /\ pc = "tune_strips"
    /\ iteration < iterations
    /\ WithinTolerance(RatSub(target_rtp, current_rtp))
    /\ tuned' = TuneResult
    /\ pc' = "tuned"
    /\ UNCHANGED <<gd, lineVars, spinVars, exportVars, runVars, rng, heap, target_rtp,
                   iterations, iteration, working_strips, best_strips, current_rtp, best_rtp,
                   starting_rtp, quick_sims, tune_calls>>

\* Lines 82-123: one round that perturbs every reel, samples the working
\* strips and keeps them if they are the best so far.
TuneIterate ==
    /\ pc = "tune_strips"
    /\ iteration < iterations
    /\ LET rtp_diff == RatSub(target_rtp, current_rtp)
       IN  /\ ~WithinTolerance(rtp_diff)
           /\ LET perturbed == PerturbReels(heap, working_strips, 1, rng, rtp_diff)
                  sim       == quick_sim(Deref(perturbed.heap, working_strips), perturbed.rng,
                                         gd, QuickSimSpins)
                  copied    == CopyLists(perturbed.heap, working_strips)
              IN  /\ current_rtp' = sim.rtp
                  /\ rng' = sim.rng
                  /\ IF Better(sim.rtp, best_rtp, target_rtp)
                     THEN /\ best_rtp' = sim.rtp
                          /\ best_strips' = copied.ids
                          /\ heap' = Collect(copied.heap,
                                             Ids(ReelStripIds) \cup Ids(working_strips)
                                                 \cup Ids(copied.ids))
                     ELSE /\ heap' = perturbed.heap
                          /\ UNCHANGED <<best_rtp, best_strips>>
    /\ iteration' = iteration + 1
    /\ quick_sims' = quick_sims + 1
    /\ UNCHANGED <<gd, lineVars, spinVars, exportVars, runVars, pc, target_rtp, iterations,
                   working_strips, starting_rtp, tune_calls, tuned>>

\* The loop of line 81 ran all its rounds; lines 125-144.
TuneExhausted ==
    /\ pc = "tune_strips"
    /\ iteration = iterations
    /\ tuned' = TuneResult
    /\ pc' = "tuned"
    /\ UNCHANGED <<gd, lineVars, spinVars, exportVars, runVars, rng, heap, target_rtp,
                   iterations, iteration, working_strips, best_strips, current_rtp, best_rtp,
                   starting_rtp, quick_sims, tune_calls>>

TuneNext ==
    \/ CallTuneStrips
    \/ TuneBreak
    \/ TuneIterate
    \/ TuneExhausted

SpecTune == TuneInit /\ [][TuneNext]_vars

\* A step of a running call: a round of the loop, or the return.
TuneStep == pc = "tune_strips" /\ (iteration' = iteration + 1 \/ pc' = "tuned")

\* tune_strips is sequential code: a running call keeps taking steps.  A
\* step is enabled exactly while pc = "tune_strips" (one of the guards of
\* TuneBreak, TuneIterate and TuneExhausted holds there), so this is weak
\* fairness of TuneStep, WF_vars(TuneStep), with ENABLED written out.
FairSpecTune ==
    SpecTune /\ ([]<>(pc # "tune_strips") \/ []<><<TuneStep>>_vars)

(***************************************************************************)
(* SpecQuick: the two evaluators on the same stops.  evaluate_spin of      *)
(* simulator.py and the body of quick_sim's loop of rtp_tuner.py are each  *)
(* applied once, in either order, to every set of stop positions up to     *)
(* MaxStop over the strips of the Game Definition.                         *)
(***************************************************************************)
\* The paylines and tables of Mixed over strips with runs of wilds next to
\* scatters, so that one grid holds a line of wilds only and a line of wilds
\* that runs into a scatter.
QuickWilds ==
    [ Mixed EXCEPT !.strips = << <<"W", "W", "S", "A", "B">>,
                                 <<"W", "S", "A", "W", "W">>,
                                 <<"A", "W", "W", "W", "S">>,
                                 <<"W", "W", "A", "S">>,
                                 <<"S", "W", "W", "A", "W", "B">> >> ]

QuickGameDefs == {Config, Mixed, QuickWilds}

QuickInit ==
    /\ TuneIdle
    /\ gd \in QuickGameDefs
    /\ stops \in [1..NUM_REELS -> 0..MaxStop]
    /\ spinRes = NotSpun
    /\ quickRes = NotQuick
    /\ LineIdle
    /\ SimIdle

\* One pass of the loop body of quick_sim, lines 25-59, at the stops.
QuickSimSpin ==
    /\ ~quickRes.done
    /\ quickRes' = LET grid == QuickColumns(gd.strips, stops, 1)
                   IN  [done |-> TRUE, grid |-> grid, payout |-> QuickSpinPayout(grid, gd)]
    /\ UNCHANGED <<gd, exportVars, tuneVars, stops, spinRes, lineVars, simVars>>

QuickNext == EvaluateSpin \/ QuickSimSpin

SpecQuick == QuickInit /\ [][QuickNext]_vars

(***************************************************************************)
(* Claims about evaluate_payline (SpecLine).  The definitions below state  *)
(* what the specification says about a line, without the evaluator.        *)
(***************************************************************************)
HasScatter(l) == \E k \in 1..Len(l) : l[k] = "S"

AllWild(l) == \A k \in 1..Len(l) : l[k] = "W"

\* The index of the leftmost symbol that is not the wild.
LeftmostNonWildIndex(l) ==
    CHOOSE k \in 1..Len(l) : l[k] # "W" /\ \A j \in 1..(k - 1) : l[j] = "W"

\* The paying symbol of the specification: the leftmost non-wild symbol, or
\* the wild on an all-wild line.
SpecPaySymbol(l) == IF AllWild(l) THEN "W" ELSE l[LeftmostNonWildIndex(l)]

\* The run of the specification: the longest prefix of symbols that are each
\* the paying symbol p or the wild.
SpecRun(l, p) ==
    CHOOSE n \in 0..Len(l) :
        /\ \A k \in 1..n : l[k] = p \/ l[k] = "W"
        /\ n < Len(l) => ~(l[n + 1] = p \/ l[n + 1] = "W")

\* A scatter that the left-to-right scan meets before any paying symbol.
ScatterBeforePay(l) == \E k \in 1..Len(l) : l[k] = "S" /\ \A j \in 1..(k - 1) : l[j] = "W"

HasEntry(paytable, p, n) == p \in DOMAIN paytable /\ n \in DOMAIN paytable[p]

\* C1 (as claimed): a line that contains the scatter at any position reports
\* no win and pays 0, also when the symbols left of the scatter form a run of
\* 3 or more.
C1_ScatterAnywherePaysNothing ==
    (lineRes.evaluated /\ HasScatter(line))
        => (~lineRes.ret.win /\ lineRes.ret.payout = 0)

\* C2: on a scatter-free line the counted run is the longest prefix of
\* symbols that are the paying symbol or the wild; the first symbol at
\* position k (0-based) that is neither ends the run at length k, whatever
\* follows it, and a run shorter than 3 is no win.
C2_RunIsLongestPrefix ==
    (lineRes.evaluated /\ ~HasScatter(line))
        => /\ lineRes.count = SpecRun(line, lineRes.pay_symbol)
           /\ \A k \in 1..Len(line) :
                 ( /\ ~(line[k] = lineRes.pay_symbol \/ line[k] = "W")
                   /\ \A j \in 1..(k - 1) : line[j] = lineRes.pay_symbol \/ line[j] = "W" )
                 => lineRes.count = k - 1
           /\ lineRes.count < 3 => ~lineRes.ret.win

\* C2 witness: a gap at the third reel with the paying symbol back on the
\* fourth and fifth: run 2, no win.
C2_Witness ==
    /\ lineRes.evaluated
    /\ gd = Config
    /\ line = <<"L1", "L1", "L2", "L1", "L1">>
    /\ lineRes.count = 2
    /\ ~lineRes.ret.win

\* C3: on a scatter-free line the paying symbol is the leftmost symbol that is
\* not the wild, and the wild itself on an all-wild line, which then pays the
\* wild's paytable entry for run length 5.
C3_PaySymbolIsLeftmostNonWild ==
    (lineRes.evaluated /\ ~HasScatter(line))
        => /\ lineRes.pay_symbol = SpecPaySymbol(line)
           /\ (AllWild(line) /\ HasEntry(gd.paytable, "W", NUM_REELS))
                 => lineRes.ret = [win |-> TRUE, symbol |-> "W", count |-> NUM_REELS,
                                   payout |-> gd.paytable["W"][NUM_REELS]]

\* C3 witness: the all-wild line under the shipped paytable pays the wild's
\* entry for 5, which is 1000.
C3_Witness ==
    /\ lineRes.evaluated
    /\ gd = Config
    /\ AllWild(line)
    /\ lineRes.pay_symbol = "W"
    /\ lineRes.ret = [win |-> TRUE, symbol |-> "W", count |-> 5, payout |-> 1000]

\* C4: a line win is recorded exactly when the run has length 3 or more and
\* the paytable has an entry for (paying symbol, run length); the payout is
\* that entry; otherwise there is no win and the line pays 0.
C4_WinIffRunAndEntry ==
    lineRes.evaluated
        => IF ScatterBeforePay(line)
           THEN lineRes.ret = NoWin
           ELSE LET p == SpecPaySymbol(line)
                    n == SpecRun(line, p)
                IN  /\ lineRes.ret.win <=> (n >= 3 /\ HasEntry(gd.paytable, p, n))
                    /\ lineRes.ret.win
                         => lineRes.ret = [win |-> TRUE, symbol |-> p, count |-> n,
                                           payout |-> gd.paytable[p][n]]
                    /\ ~lineRes.ret.win => lineRes.ret = NoWin

\* C4 witness: a run of 5 against a paytable whose only entry is for 3, and
\* a run of 2.
C4_Witness ==
    /\ lineRes.evaluated
    /\ gd = ExampleSparse
    /\ line = <<"A", "A", "A", "A", "A">>
    /\ lineRes.count = 5
    /\ lineRes.ret = NoWin

(***************************************************************************)
(* Claims about evaluate_scatters and evaluate_spin (SpecSpin).            *)
(***************************************************************************)
\* The cells of the visible window that hold a scatter, read off the reel
\* strips: reel r shows the stops stops[r], stops[r] + 1, stops[r] + 2 of its
\* cyclic strip.
ScatterCells ==
    {c \in (1..NUM_REELS) \X (0..(NUM_ROWS - 1)) :
        gd.strips[c[1]][((stops[c[1]] + c[2]) % Len(gd.strips[c[1]])) + 1] = "S"}

RECURSIVE SumPayouts(_)
SumPayouts(wins) == IF wins = <<>> THEN 0 ELSE Head(wins).payout + SumPayouts(Tail(wins))

\* C5: the scatter count is the number of scatters over all 15 cells of the
\* grid; payout and free-spin award are exact-key lookups: a count that is no
\* key of the table (0, 1, 2, 6..15) gives exactly 0.
C5_ScatterLookupsExact ==
    spinRes.spun
        => LET d == spinRes.details
           IN  /\ d.scatter_count = Cardinality(ScatterCells)
               /\ d.scatter_count \in DOMAIN gd.scatter_pays
                     => d.scatter_payout = gd.scatter_pays[d.scatter_count]
               /\ d.scatter_count \notin DOMAIN gd.scatter_pays => d.scatter_payout = 0
               /\ d.scatter_count \in DOMAIN gd.free_spins_trigger
                     => d.free_spins = gd.free_spins_trigger[d.scatter_count]
               /\ d.scatter_count \notin DOMAIN gd.free_spins_trigger => d.free_spins = 0
               /\ d.scatter_count \notin {3, 4, 5} => (d.scatter_payout = 0 /\ d.free_spins = 0)

\* C5 witness: a grid of 15 scatters, a count above the largest key, pays 0
\* and awards no free spins.
C5_Witness ==
    /\ spinRes.spun
    /\ spinRes.details.scatter_count = 15
    /\ spinRes.details.scatter_payout = 0
    /\ spinRes.details.free_spins = 0

\* C6: total payout = (sum of the recorded line wins' payouts) / (number of
\* paylines) + scatter payout; the scatter payout is not divided, and the
\* free-spin award adds nothing.
C6_TotalIsLinesOverPaylinesPlusScatter ==
    spinRes.spun
        => LET d == spinRes.details
               n == Len(gd.paylines)
           IN  /\ spinRes.payout.den > 0
               /\ spinRes.payout.num * n
                     = (SumPayouts(d.winning_lines) + d.scatter_payout * n) * spinRes.payout.den
               /\ \A k \in 1..Len(d.winning_lines) :
                     LET w == d.winning_lines[k]
                     IN  evaluate_payline(d.grid, gd.paylines[w.line], gd.paytable)
                            = [win |-> TRUE, symbol |-> w.symbol, count |-> w.count,
                               payout |-> w.payout]

\* C6 witness: a spin with a line win, a scatter payout and a free-spin award
\* under more than one payline.
C6_Witness ==
    /\ spinRes.spun
    /\ Len(gd.paylines) > 1
    /\ spinRes.details.winning_lines # <<>>
    /\ spinRes.details.scatter_payout > 0
    /\ spinRes.details.free_spins > 0

(***************************************************************************)
(* Claims about the sampler and the export (Spec)                          *)
(***************************************************************************)
BaseRuns == {k \in DOMAIN returned : returned[k].fn = "run_simulation"}

RECURSIVE SumCountsOver(_, _)
SumCountsOver(buckets, keys) ==
    IF keys = {} THEN 0
    ELSE LET k == CHOOSE x \in keys : TRUE
         IN  buckets[k].count + SumCountsOver(buckets, keys \ {k})

SumCounts(buckets) == SumCountsOver(buckets, DOMAIN buckets)

\* The sum of the probabilities of the rows minus 1, in units of 10^-10.
RECURSIVE SumLimb(_, _)
SumLimb(rows, limb) ==
    IF rows = <<>> THEN 0
    ELSE (IF limb = "hi" THEN Head(rows).probability.hi ELSE Head(rows).probability.lo)
         + SumLimb(Tail(rows), limb)

ProbabilitySumMinusOne(rows) == (SumLimb(rows, "hi") - 100000) * 100000 + SumLimb(rows, "lo")

\* C7: any two finished calls of run_simulation with the same trial count
\* (under the one seed and the one Game Definition of the process) returned
\* identical Outcome Tables: same keys, same counts, same retained examples,
\* whatever drew from the generator before each of them.
C7_SameArgumentsSameTable ==
    \A j \in BaseRuns : \A k \in BaseRuns :
        returned[j].num_samples = returned[k].num_samples
            => returned[j].table = returned[k].table

\* C8: while a sampling run is in progress (base mode, or free-spins mode
\* between and inside sessions) the counts of the buckets sum to the number
\* of trials accumulated so far; a returned table's counts sum to its trial
\* count; and the probabilities of an exported table sum to 1 within 10^-6.
C8_CountsSumToTrials ==
    /\ pc \in {"run_simulation", "fs_sessions", "fs_spins"}
          => SumCounts(outcome_buckets) = i
    /\ \A k \in DOMAIN returned : SumCounts(returned[k].table) = returned[k].num_samples
    /\ pc \in {"exported", "done"}
          => /\ ProbabilitySumMinusOne(csv_rows) <= 10000
             /\ ProbabilitySumMinusOne(csv_rows) >= -10000

\* C8 witness: after a base run and a free-spins run, the export of a base
\* table of several trials whose rows carry at least two non-zero
\* probabilities.
C8_Witness ==
    /\ pc = "exported"
    /\ \E k \in DOMAIN returned : returned[k].fn = "simulate_free_spins_mode"
    /\ \E a \in DOMAIN csv_rows : \E b \in DOMAIN csv_rows :
          /\ a # b
          /\ csv_rows[a].probability # [hi |-> 0, lo |-> 0]
          /\ csv_rows[b].probability # [hi |-> 0, lo |-> 0]

\* C9: the stop position drawn for reel r in a trial (of base mode or of a
\* free-spins session) lies in 0 .. (length of reel r's own strip) - 1.
C9_StopsWithinOwnStrip ==
    (pc \in {"run_simulation", "fs_spins"} /\ stops # <<>>)
        => \A r \in 1..NUM_REELS : stops[r] \in 0..(Len(gd.strips[r]) - 1)

\* C10: when all trials of a base run fell into one bucket p, the table
\* run_simulation returned has exactly that one key, with the trial count,
\* and the realized ratio is p (to the 2 decimals of the key).
C10_SinglePayoutSingleBucket ==
    \A k \in BaseRuns :
        \A p \in DOMAIN returned[k].table :
            returned[k].table[p].count = returned[k].num_samples
                => /\ DOMAIN returned[k].table = {p}
                   /\ Round(returned[k].rtp, 100) = p

\* C11: the realized ratio run_simulation returned equals the sum over the
\* buckets of the returned table of (payout key * count), divided by the
\* trial count (keys are hundredths, hence the factor 100).
C11_RatioRecoverableFromTable ==
    \A k \in BaseRuns :
        RatEq(returned[k].rtp,
              Divide(WeightedSum(returned[k].table, DOMAIN returned[k].table),
                     100 * returned[k].num_samples))

TrialExample(st, res) ==
    [ stops         |-> st,
      grid          |-> res.details.grid,
      winning_lines |-> res.details.winning_lines,
      scatter_count |-> res.details.scatter_count ]

ExamplesBounded(buckets, exact) ==
    \A b \in DOMAIN buckets :
        LET n == Len(buckets[b].examples)
        IN  IF exact
            THEN n = (IF buckets[b].count < 3 THEN buckets[b].count ELSE 3)
            ELSE n <= 3

\* C18: in base mode every bucket, during the run and in the returned
\* table, holds exactly min(count, 3) examples; a trial is appended to its
\* bucket's examples only while the bucket held fewer than 3, and no other
\* example changes, so the examples are the first trials of the bucket in
\* trial order.  In free-spins mode no bucket holds more than 3 examples.
C18_ExamplesAreFirstThree ==
    /\ [](/\ pc = "run_simulation" => ExamplesBounded(outcome_buckets, TRUE)
          /\ pc \in {"fs_sessions", "fs_spins"} => ExamplesBounded(outcome_buckets, FALSE)
          /\ \A k \in DOMAIN returned :
                ExamplesBounded(returned[k].table, returned[k].fn = "run_simulation"))
    /\ [][ (pc = "run_simulation" /\ i' = i + 1)
              => LET key == Round(spinRes'.payout, 100)
                     old == IF key \in DOMAIN outcome_buckets
                            THEN outcome_buckets[key].examples ELSE <<>>
                 IN  /\ outcome_buckets'[key].examples
                            = IF Len(old) < 3
                              THEN Append(old, TrialExample(stops', spinRes'))
                              ELSE old
                     /\ \A b \in DOMAIN outcome_buckets \ {key} :
                           outcome_buckets'[b].examples = outcome_buckets[b].examples
         ]_vars

\* C18 witness: a returned base table with a bucket of 4 trials that kept 3.
C18_Witness ==
    \E k \in BaseRuns : \E b \in DOMAIN returned[k].table :
        /\ returned[k].table[b].count > 3
        /\ Len(returned[k].table[b].examples) = 3

\* The total payout evaluate_spin computes for a grid, to 2 decimals.
GridPayoutKey(grid, g) ==
    LET lines == LineLoop(grid, g, 0, [total_line_payout |-> 0, winning_lines |-> <<>>])
        sc    == evaluate_scatters(grid, g.scatter_pays, g.free_spins_trigger)
    IN  Round(TotalPayoutMultiplier(lines.total_line_payout, Len(g.paylines),
                                    sc.scatter_payout), 100)

\* C19: once both exports are written, the rows are numbered 0..n-1 in
\* strictly ascending payout order, every row's bucket has count >= 1 and a
\* payout >= 0, and every row number has a game event with the row's payout
\* whose example grid evaluates to that payout.
C19_EveryRowHasItsEvent ==
    pc = "done"
        => /\ \A n \in DOMAIN csv_rows :
                 /\ csv_rows[n].simulation_number = n - 1
                 /\ csv_rows[n].payout_multiplier >= 0
                 /\ n > 1 => csv_rows[n - 1].payout_multiplier < csv_rows[n].payout_multiplier
                 /\ base_outcomes[csv_rows[n].payout_multiplier].count >= 1
           /\ \A n \in DOMAIN csv_rows :
                 \E e \in DOMAIN game_events :
                    /\ game_events[e].key = csv_rows[n].simulation_number
                    /\ game_events[e].payout_multiplier = csv_rows[n].payout_multiplier
                    /\ GridPayoutKey(game_events[e].grid, gd) = csv_rows[n].payout_multiplier

(***************************************************************************)
(* Claims about configuration errors (SpecUnchecked)                       *)
(***************************************************************************)
\* The invariants of a Game Definition over the symbol table of slot_config:
\* no empty reel strip, payline rows within the visible window, paytable
\* symbols within the symbol table.
ValidGameDefinition(g) ==
    /\ \A r \in DOMAIN g.strips : Len(g.strips[r]) > 0
    /\ \A l \in DOMAIN g.paylines : \A r \in DOMAIN g.paylines[l] :
          g.paylines[l][r] \in 0..(NUM_ROWS - 1)
    /\ \A sym \in DOMAIN g.paytable : sym \in SYMBOLS

\* C16: under a Game Definition that violates an invariant no sampling run
\* draws a stop position, evaluates a spin, fills a bucket or returns a
\* table.
C16_InvalidDefinitionNeverSampled ==
    ~ValidGameDefinition(gd)
        => /\ stops = <<>>
           /\ ~spinRes.spun
           /\ outcome_buckets = EmptyTable
           /\ returned = <<>>

(***************************************************************************)
(* Claims about the tuner (SpecTune, FairSpecTune)                         *)
(***************************************************************************)
InTuner == pc \in {"tune_strips", "tuned"}

\* |r - target_rtp|
Distance(r) == RatAbs(RatSub(r, target_rtp))

\* A round of the loop of tune_strips is the step that advances iteration.
TuneRound == pc = "tune_strips" /\ iteration' = iteration + 1

Working(h) == Deref(h, working_strips)

Diffs(a, b) == {k \in DOMAIN a : a[k] # b[k]}

LowTier == {"L1", "L2", "L3", "L4"}

HighTierOrWild == {"W", "H1", "H2", "H3"}

\* C13: the best ratio starts as the initially sampled ratio, its distance
\* to the target never grows and is never above the initial distance; after
\* a round the best is the nearer of the previous best and the new sample,
\* the best strips are the strips of the sample that gave the best ratio,
\* and tune_strips returns that pair.
C13_BestSoFarIsRetained ==
    /\ [](InTuner => ~RatLess(Distance(starting_rtp), Distance(best_rtp)))
    /\ [](pc = "tuned" => tuned = [best_strips |-> Deref(heap, best_strips),
                                   best_rtp    |-> best_rtp])
    /\ [][ /\ (pc' = "tune_strips" /\ pc # "tune_strips")
                 => /\ best_rtp' = starting_rtp'
                    /\ Deref(heap', best_strips') = gd.strips
           /\ TuneRound
                 => /\ ~RatLess(Distance(best_rtp), Distance(best_rtp'))
                    /\ ~RatLess(Distance(current_rtp'), Distance(best_rtp'))
                    /\ \/ /\ best_rtp' = current_rtp'
                          /\ Deref(heap', best_strips') = Deref(heap', working_strips')
                       \/ /\ best_rtp' = best_rtp
                          /\ Deref(heap', best_strips') = Deref(heap, best_strips)
         ]_vars

\* C13 witness: a call returned a best ratio that is neither the initial
\* sample nor the last one.
C13_Witness ==
    /\ pc = "tuned"
    /\ iteration >= 2
    /\ best_rtp # current_rtp
    /\ best_rtp # starting_rtp

\* C14: a call makes at most `iterations` rounds and one more sample than
\* rounds; once the sampled ratio is within 0.005 of the target the next
\* step returns without changing a list or sampling again; and every call
\* returns.
C14_BoundedAndEarlyTermination ==
    /\ [](InTuner => /\ iteration <= iterations
                     /\ quick_sims = iteration + 1)
    /\ [][ ( /\ pc = "tune_strips"
             /\ Distance(current_rtp).num * 200 < Distance(current_rtp).den )
              => /\ pc' = "tuned"
                 /\ heap' = heap
                 /\ quick_sims' = quick_sims
                 /\ iteration' = iteration
         ]_vars
    /\ (pc = "tune_strips" ~> pc = "tuned")

\* C14 witness: a call returned early, after at least one round and before
\* its last.
C14_Witness ==
    /\ pc = "tuned"
    /\ iteration >= 1
    /\ iteration < iterations
    /\ Distance(current_rtp).num * 200 < Distance(current_rtp).den

\* C15: the lists of REEL_STRIPS keep the symbols of the Game Definition;
\* the working strips, the best strips and REEL_STRIPS share no list; and a
\* round that does not replace the best strips leaves their symbols alone.
C15_InputAndSnapshotUntouched ==
    /\ [](InTuner => /\ Deref(heap, ReelStripIds) = gd.strips
                     /\ Ids(working_strips) \cap Ids(ReelStripIds) = {}
                     /\ Ids(best_strips) \cap Ids(ReelStripIds) = {}
                     /\ Ids(best_strips) \cap Ids(working_strips) = {})
    /\ [][ (TuneRound /\ best_rtp' = best_rtp /\ best_strips' = best_strips)
               => Deref(heap', best_strips') = Deref(heap, best_strips)
         ]_vars

\* C15 witness: the working strips were perturbed after the best strips were
\* taken from an earlier, already perturbed, state.
C15_Witness ==
    /\ pc = "tune_strips"
    /\ iteration >= 2
    /\ best_rtp # starting_rtp
    /\ Deref(heap, best_strips) # gd.strips
    /\ Deref(heap, best_strips) # Working(heap)

\* C17: in a round below target every changed stop held a low-tier symbol
\* and holds a high-tier symbol or the wild, at most 3 stops per reel; in a
\* round above target every changed stop held a high-tier symbol or the wild
\* and holds a low-tier symbol, at most 2 stops per reel.
C17_SwapsDirectedAndCapped ==
    [][ TuneRound
          => \A r \in 1..NUM_REELS :
                LET before == Working(heap)[r]
                    after  == Working(heap')[r]
                    D      == Diffs(before, after)
                IN  IF RatLess(current_rtp, target_rtp)
                    THEN /\ Cardinality(D) <= 3
                         /\ \A k \in D : before[k] \in LowTier /\ after[k] \in HighTierOrWild
                    ELSE /\ Cardinality(D) <= 2
                         /\ \A k \in D : before[k] \in HighTierOrWild /\ after[k] \in LowTier
      ]_vars

\* C17 witness: after the first round of a call below target a reel differs
\* from its input in exactly 3 stops.
C17_Witness ==
    /\ pc = "tune_strips"
    /\ iteration = 1
    /\ RatLess(starting_rtp, target_rtp)
    /\ \E r \in 1..NUM_REELS : Cardinality(Diffs(Working(heap)[r], gd.strips[r])) = 3

\* C20: every working and best strip keeps the length of its input strip;
\* a stop that held S, L1 or L2 holds the same symbol, and no other stop
\* holds S.
C20_LengthsAndScattersKept ==
    InTuner
        => \A ids \in {working_strips, best_strips} : \A r \in 1..NUM_REELS :
              LET input == gd.strips[r]
                  now   == heap[ids[r]]
              IN  /\ Len(now) = Len(input)
                  /\ \A k \in DOMAIN input :
                        /\ input[k] \in {"S", "L1", "L2"} => now[k] = input[k]
                        /\ now[k] = "S" => input[k] = "S"

\* C20 witness: rounds changed a reel that holds a scatter and an L1 or L2.
C20_Witness ==
    /\ pc = "tune_strips"
    /\ iteration >= 2
    /\ \E r \in 1..NUM_REELS :
          /\ Diffs(Working(heap)[r], gd.strips[r]) # {}
          /\ \E k \in DOMAIN gd.strips[r] : gd.strips[r][k] = "S"
          /\ \E k \in DOMAIN gd.strips[r] : gd.strips[r][k] \in {"L1", "L2"}

(***************************************************************************)
(* Claims about the tuner's evaluator against the sampler's (SpecQuick)    *)
(***************************************************************************)
\* The symbols a payline reads off a grid, row by row of the payline.
LineOf(grid, payline) == [reel \in 1..Len(payline) |-> PyIndex(grid[reel], payline[reel])]

\* C21: for one grid, the per-spin payout of quick_sim's inline evaluator
\* (line total / number of paylines + scatter pay) equals the total payout
\* of evaluate_spin.
C21_QuickSimPaysAsEvaluateSpin ==
    (quickRes.done /\ spinRes.spun /\ quickRes.grid = spinRes.details.grid)
        => /\ quickRes.payout.den > 0
           /\ spinRes.payout.den > 0
           /\ quickRes.payout.num * spinRes.payout.den
                 = spinRes.payout.num * quickRes.payout.den

\* C21 witness: both evaluators ran on a grid that has a payline of wilds
\* only and a payline that starts with a wild followed by a scatter, and
\* the grid pays.
C21_Witness ==
    /\ quickRes.done
    /\ spinRes.spun
    /\ quickRes.grid = spinRes.details.grid
    /\ spinRes.payout.num > 0
    /\ \E k \in DOMAIN gd.paylines :
          \A reel \in 1..NUM_REELS : LineOf(quickRes.grid, gd.paylines[k])[reel] = "W"
    /\ \E k \in DOMAIN gd.paylines :
          LET l == LineOf(quickRes.grid, gd.paylines[k])
          IN  \E j \in 2..NUM_REELS :
                 /\ l[j] = "S"
                 /\ \A m \in 1..(j - 1) : l[m] = "W"

=============================================================================
